---- MODULE Spec2Model ----
(***************************************************************************)
(* A model of the timetracker package: the slug generator                 *)
(* (timetracker/slugify.py), the Category/Task tree (timetracker/models.py)*)
(* and the shell commands that add and remove nodes                        *)
(* (timetracker/scripts/tracker.py).                                       *)
(*                                                                         *)
(* A Python str is modelled as the sequence of its code points, so that    *)
(* the regular-expression substitution, lower(), strip('-'), the f-string  *)
(* that appends the counter and the ordering used by sorted() are computed *)
(* character by character.                                                 *)
(***************************************************************************)
EXTENDS Integers, Sequences, FiniteSets, TLC

VARIABLES
    \* ---- the tree (models.py, tracker.py) ----
    heap,     \* every Category/Task object constructed so far, by handle
    items,    \* container handle -> its mapping, as a list of <<key, handle>>
              \* in insertion order (handle 0 is the database root mapping)
    \* ---- one call of slugify_unique (slugify.py) ----
    text,     \* argument s
    used,     \* argument used
    prefix,   \* local prefix
    slug,     \* local slug
    count,    \* local count
    pc        \* "start" | "loop" | "done"

vars == <<heap, items, text, used, prefix, slug, count, pc>>
treeVars == <<heap, items>>
slugVars == <<text, used, prefix, slug, count, pc>>

(***************************************************************************)
(* Bounds of the model.                                                    *)
(***************************************************************************)
MaxTextLen == 2     \* longest text given to slugify_unique in SpecSlug
MaxNormLen == 4     \* longest text given to slugify in SpecNormalize
MaxChain == 11      \* longest run base, base-2 .. base-MaxChain put in used
MaxNodes == 4       \* objects constructed in one run of the tree
MaxPathLen == 2     \* segments of a dotted path given to a shell command

(***************************************************************************)
(* Characters.                                                             *)
(***************************************************************************)
Dash == <<45>>
Dot == <<46>>

IsAlnum(c) == (c >= 48 /\ c <= 57) \/ (c >= 65 /\ c <= 90) \/ (c >= 97 /\ c <= 122)

\* str.lower() on one code point (ASCII and Latin-1 capitals).
LowerChar(c) ==
    IF c >= 65 /\ c <= 90 THEN c + 32
    ELSE IF c >= 192 /\ c <= 222 /\ c # 215 THEN c + 32
    ELSE c

Lower(s) == [i \in 1..Len(s) |-> LowerChar(s[i])]

\* s with its leading characters outside [A-Za-z0-9] dropped.
RECURSIVE SkipRun(_)
SkipRun(s) ==
    IF s = <<>> THEN <<>>
    ELSE IF IsAlnum(s[1]) THEN s
    ELSE SkipRun(Tail(s))

\* SLUGIFY_RE.sub("-", s) with SLUGIFY_RE = ([^A-Za-z0-9]+): every maximal
\* run of characters that are not ASCII letters or digits becomes one dash.
RECURSIVE ReSub(_)
ReSub(s) ==
    IF s = <<>> THEN <<>>
    ELSE IF IsAlnum(s[1]) THEN <<s[1]>> \o ReSub(Tail(s))
    ELSE Dash \o ReSub(SkipRun(s))

RECURSIVE LStrip(_)
LStrip(s) ==
    IF s = <<>> THEN <<>>
    ELSE IF s[1] = Dash[1] THEN LStrip(Tail(s))
    ELSE s

RECURSIVE RStrip(_)
RStrip(s) ==
    IF s = <<>> THEN <<>>
    ELSE IF s[Len(s)] = Dash[1] THEN RStrip(SubSeq(s, 1, Len(s) - 1))
    ELSE s

\* str.strip('-')
Strip(s) == RStrip(LStrip(s))

\* slugify(s)
Slugify(s) == Strip(Lower(ReSub(s)))

\* str(n) for n >= 0, as the f-string formats the counter.
RECURSIVE Str(_)
Str(n) ==
    IF n < 10 THEN <<48 + n>>
    ELSE Str(n \div 10) \o <<48 + (n % 10)>>

\* count = 1
FirstCount == 1

NextCountByTwo(c) == c + 2

\* One pass of the loop body: count += 1; slug = f"{prefix}-{count}".
NextCount(c) == c + 1
Suffixed(p, c) == p \o Dash \o Str(c)

\* The while loop of slugify_unique and the value it returns.
RECURSIVE Probe(_, _, _, _)
Probe(p, sl, c, u) ==
    IF sl \in u THEN Probe(p, Suffixed(p, NextCount(c)), NextCount(c), u)
    ELSE sl

SlugifyOnly(s, u) == Slugify(s)

\* slugify_unique(s, used)
SlugifyUnique(s, u) == Probe(Slugify(s), Slugify(s), FirstCount, u)

(***************************************************************************)
(* The tree.  An object is a handle 1..Len(heap); handle 0 is the database *)
(* root mapping (TrackerCmd.root), which is a mapping but not a Category.  *)
(* title and description play no part in ids, order, sums or deletion and  *)
(* are left out of the objects.                                            *)
(***************************************************************************)
RootH == 0
NoParent == -1      \* __parent__ is None

\* Python values given as mins.
NoMins == [t |-> "NoneType", v |-> 0]
IntMins(n) == [t |-> "int", v |-> n]
FloatMins == [t |-> "float", v |-> 1]

\* An optional id argument: None, or a str.
NoId == [given |-> FALSE, v |-> <<>>]
GivenId(k) == [given |-> TRUE, v |-> k]

\* ---- the mapping of a container: a dict, kept in insertion order ----
Keys(d) == {d[i][1] : i \in 1..Len(d)}
Has(d, k) == k \in Keys(d)
Get(d, k) == d[CHOOSE i \in 1..Len(d) : d[i][1] = k][2]

\* d[k] = v
SetItem(d, k, v) ==
    IF Has(d, k)
    THEN [i \in 1..Len(d) |-> IF d[i][1] = k THEN <<k, v>> ELSE d[i]]
    ELSE Append(d, <<k, v>>)

\* del d[k]  (k is a key of d)
DelItem(d, k) == SelectSeq(d, LAMBDA e : e[1] # k)

\* a < b for two str, as Python compares them: code point by code point.
RECURSIVE StrLess(_, _)
StrLess(a, b) ==
    IF b = <<>> THEN FALSE
    ELSE IF a = <<>> THEN TRUE
    ELSE IF a[1] # b[1] THEN a[1] < b[1]
    ELSE StrLess(Tail(a), Tail(b))

\* (k1, v1) < (k2, v2) for two items of one mapping: their keys differ, so
\* the keys decide and the values are never compared.
ItemLess(x, y) == StrLess(x[1], y[1])

RECURSIVE InsertSorted(_, _)
InsertSorted(x, s) ==
    IF s = <<>> THEN <<x>>
    ELSE IF ItemLess(x, s[1]) THEN <<x>> \o s
    ELSE <<s[1]>> \o InsertSorted(x, Tail(s))

InsertionOrder(d) == d

\* sorted(list(self.items()))
RECURSIVE SortedItems(_)
SortedItems(d) ==
    IF d = <<>> THEN <<>>
    ELSE InsertSorted(d[1], SortedItems(Tail(d)))

\* ---- Category.categories / tasks / total_mins ----
\* The for loop of categories() over what is left of the sorted items.
RECURSIVE CatWalk(_, _, _, _)
CatWalk(hp, it, lst, recurse) ==
    IF lst = <<>> THEN <<>>
    ELSE LET v == lst[1][2] IN
         (IF hp[v].kind = "Category"
          THEN <<v>> \o (IF recurse
                         THEN CatWalk(hp, it, SortedItems(it[v]), TRUE)
                         ELSE <<>>)
          ELSE <<>>)
         \o CatWalk(hp, it, Tail(lst), recurse)

Categories(hp, it, h, recurse) == CatWalk(hp, it, SortedItems(it[h]), recurse)

\* The for loop of tasks() over what is left of the sorted items.
RECURSIVE TaskWalk(_, _, _, _)
TaskWalk(hp, it, lst, recurse) ==
    IF lst = <<>> THEN <<>>
    ELSE LET v == lst[1][2] IN
         (IF hp[v].kind = "Task" THEN <<v>> ELSE <<>>)
         \o (IF recurse /\ hp[v].kind = "Category"
             THEN TaskWalk(hp, it, SortedItems(it[v]), TRUE)
             ELSE <<>>)
         \o TaskWalk(hp, it, Tail(lst), recurse)

Tasks(hp, it, h, recurse) == TaskWalk(hp, it, SortedItems(it[h]), recurse)

MinsOrZeroDropsNegative(m) == IF m.t = "NoneType" \/ m.v <= 0 THEN 0 ELSE m.v

\* t.mins or 0
MinsOrZero(m) == IF m.t = "NoneType" \/ m.v = 0 THEN 0 ELSE m.v

RECURSIVE SumMins(_, _)
SumMins(hp, ts) ==
    IF ts = <<>> THEN 0
    ELSE MinsOrZero(hp[ts[1]].mins) + SumMins(hp, Tail(ts))

\* Category.total_mins
TotalMins(hp, it, h, recurse) == SumMins(hp, Tasks(hp, it, h, recurse))

\* ---- TrackerCmd.traverse ----
\* path_string.split("."), empty pieces dropped.
RECURSIVE SplitDots(_, _)
SplitDots(s, cur) ==
    IF s = <<>> THEN (IF cur = <<>> THEN <<>> ELSE <<cur>>)
    ELSE IF s[1] = Dot[1]
         THEN (IF cur = <<>> THEN <<>> ELSE <<cur>>) \o SplitDots(Tail(s), <<>>)
         ELSE SplitDots(Tail(s), Append(cur, s[1]))

\* reduce(lambda a, b: a[b], path, obj): a[b] raises KeyError when b is no key
\* of the mapping a, and TypeError when a is a Task.
RECURSIVE Reduce(_, _, _, _)
Reduce(hp, it, obj, path) ==
    IF path = <<>> THEN [err |-> "ok", h |-> obj]
    ELSE IF obj # RootH /\ hp[obj].kind = "Task"
         THEN [err |-> "NotTraversable", h |-> obj]
    ELSE IF ~Has(it[obj], path[1]) THEN [err |-> "NotFound", h |-> obj]
    ELSE Reduce(hp, it, Get(it[obj], path[1]), Tail(path))

Traverse(hp, it, arg) == Reduce(hp, it, RootH, SplitDots(arg, <<>>))

(***************************************************************************)
(* The calls on the tree.  Each is a function from the objects and         *)
(* mappings before the call to how the call ends (err) and the objects and *)
(* mappings after it; a call that raises is one whose err is not "ok".     *)
(* err names the error kind: DuplicateId is the KeyError of add_*,         *)
(* InvalidDuration the ValueError of Task.__init__, NoParent and NotEmpty  *)
(* the two Exceptions of delete, KeyError the one of del on a missing key, *)
(* TypeError the one of a call with an argument the method does not take,  *)
(* NotFound / NotTraversable the KeyError / TypeError of a[b] in traverse, *)
(* CannotDeleteRoot the ValueError of do_rm, AttributeError the one of     *)
(* keys() on a Task.                                                       *)
(***************************************************************************)
Outcome(err, hp, it) == [err |-> err, heap |-> hp, items |-> it]

\* The id add_task / add_category settle on for a new child of mapping d.
AddId(d, title, id) ==
    IF id.given
    THEN IF Has(d, id.v) THEN [err |-> "DuplicateId", key |-> id.v]
         ELSE [err |-> "ok", key |-> id.v]
    ELSE [err |-> "ok", key |-> SlugifyUnique(title, Keys(d))]

\* Task.__init__: mins must be None or an int.
TaskInitErr(mins) ==
    IF mins.t # "NoneType" /\ mins.t # "int" THEN "InvalidDuration" ELSE "ok"

NewCategory(key, parent) ==
    [kind |-> "Category", id |-> key, parent |-> parent, mins |-> NoMins]

NewTask(key, parent, mins) ==
    [kind |-> "Task", id |-> key, parent |-> parent, mins |-> mins]

\* Category(id, title): a category constructed on its own has no parent.
ConstructCategoryResult(hp, it, key) ==
    Outcome("ok", Append(hp, NewCategory(key, NoParent)),
            it @@ (Len(hp) + 1 :> <<>>))

\* Category.add_category(title, id=id) on the category h.
AddCategoryResult(hp, it, h, title, id) ==
    LET r == AddId(it[h], title, id)
        n == Len(hp) + 1
    IN  IF r.err # "ok" THEN Outcome(r.err, hp, it)
        ELSE Outcome("ok", Append(hp, NewCategory(r.key, h)),
                     [it EXCEPT ![h] = SetItem(@, r.key, n)] @@ (n :> <<>>))

\* Category.add_task(title, id=id, mins=mins) on the category h.
AddTaskResult(hp, it, h, title, id, mins) ==
    LET r == AddId(it[h], title, id)
        n == Len(hp) + 1
    IN  IF r.err # "ok" THEN Outcome(r.err, hp, it)
        ELSE IF TaskInitErr(mins) # "ok" THEN Outcome(TaskInitErr(mins), hp, it)
        ELSE Outcome("ok", Append(hp, NewTask(r.key, h, mins)),
                     [it EXCEPT ![h] = SetItem(@, r.key, n)])

\* del self.__parent__[self.id]
Unlink(hp, it, h) ==
    IF ~Has(it[hp[h].parent], hp[h].id) THEN Outcome("KeyError", hp, it)
    ELSE Outcome("ok", hp, [it EXCEPT ![hp[h].parent] = DelItem(@, hp[h].id)])

CategoryDeleteIgnoresChildren(hp, it, h, recurse) ==
    IF hp[h].parent = NoParent THEN Outcome("NoParent", hp, it)
    ELSE Unlink(hp, it, h)

\* Category.delete(recurse) on the category h.
CategoryDeleteResult(hp, it, h, recurse) ==
    IF hp[h].parent = NoParent THEN Outcome("NoParent", hp, it)
    ELSE IF it[h] # <<>> /\ ~recurse THEN Outcome("NotEmpty", hp, it)
    ELSE Unlink(hp, it, h)

\* Task.delete() on the task h.
TaskDeleteResult(hp, it, h) ==
    IF hp[h].parent = NoParent THEN Outcome("NoParent", hp, it)
    ELSE Unlink(hp, it, h)

\* do_rm(arg) and, with recurse, do_rrm(arg).  obj.delete(recurse=recurse)
\* on a Task raises TypeError: Task.delete takes no recurse argument.
DoRmResult(hp, it, arg, recurse) ==
    LET t == Traverse(hp, it, arg)
    IN  IF t.err # "ok" THEN Outcome(t.err, hp, it)
        ELSE IF t.h = RootH THEN Outcome("CannotDeleteRoot", hp, it)
        ELSE IF hp[t.h].kind = "Task" THEN Outcome("TypeError", hp, it)
        ELSE CategoryDeleteResult(hp, it, t.h, recurse)

\* do_addcat(arg) with the title and the id typed at the prompts (newId is
\* empty when the proposed id is accepted).
DoAddcatResult(hp, it, arg, title, newId) ==
    LET t == Traverse(hp, it, arg)
        n == Len(hp) + 1
    IN  IF t.err # "ok" THEN Outcome(t.err, hp, it)
        ELSE IF t.h # RootH /\ hp[t.h].kind = "Task"
        THEN Outcome("AttributeError", hp, it)
        ELSE LET proposed == SlugifyUnique(title, Keys(it[t.h]))
                 id == IF newId # <<>> THEN newId ELSE proposed
             IN  IF t.h = RootH
                 THEN Outcome("ok", Append(hp, NewCategory(id, RootH)),
                              [it EXCEPT ![RootH] = SetItem(@, id, n)]
                                  @@ (n :> <<>>))
                 ELSE AddCategoryResult(hp, it, t.h, title, GivenId(id))

(***************************************************************************)
(* Spec: any sequence of calls.  Callers hold on to the objects they were  *)
(* given, so a method may be called on any object constructed so far, in   *)
(* the tree or not; the shell commands reach objects by dotted path.  A    *)
(* call that raises changes nothing and is no step.                        *)
(***************************************************************************)
\* "A", "B"
Titles == {<<65>>, <<66>>}

\* "a"
ExplicitIds == {<<97>>}

MinsInputs == {NoMins, IntMins(-1), IntMins(2), FloatMins}

\* (title, id) as given to add_category / add_task: a title alone, or an
\* explicit id (the title then plays no part in the id).
NameInputs ==
    {[title |-> ti, id |-> NoId] : ti \in Titles}
        \cup {[title |-> <<65>>, id |-> GivenId(k)] : k \in ExplicitIds}

\* (title, new id) as typed at the prompts of do_addcat: a title with the
\* proposed id accepted (empty answer), or an id typed in.
PromptInputs ==
    {[title |-> ti, newId |-> <<>>] : ti \in Titles}
        \cup {[title |-> <<65>>, newId |-> k] : k \in ExplicitIds}

RECURSIVE JoinDots(_)
JoinDots(p) ==
    IF p = <<>> THEN <<>>
    ELSE IF Len(p) = 1 THEN p[1]
    ELSE p[1] \o Dot \o JoinDots(Tail(p))

\* "", "a", "a.a", ... and "b"
PathArgs ==
    {JoinDots(p) : p \in UNION {[1..n -> {<<97>>}] : n \in 0..MaxPathLen}}
        \cup {<<98>>}

Handles == 1..Len(heap)
CategoryHandles == {h \in Handles : heap[h].kind = "Category"}
TaskHandles == {h \in Handles : heap[h].kind = "Task"}

Init ==
    /\ heap = <<>>
    /\ items = (RootH :> <<>>)
    /\ text = <<>>
    /\ used = {}
    /\ prefix = <<>>
    /\ slug = <<>>
    /\ count = 0
    /\ pc = "start"

\* The call ends well and leaves r.heap, r.items.
Returns(r, max) ==
    /\ r.err = "ok"
    /\ Len(r.heap) <= max
    /\ heap' = r.heap
    /\ items' = r.items
    /\ UNCHANGED slugVars

ConstructCategory(key) ==
    LET r == ConstructCategoryResult(heap, items, key)
    IN  Returns(r, MaxNodes)

AddCategory(h, title, id) ==
    LET r == AddCategoryResult(heap, items, h, title, id)
    IN  Returns(r, MaxNodes)

AddTask(h, title, id, mins) ==
    LET r == AddTaskResult(heap, items, h, title, id, mins)
    IN  Returns(r, MaxNodes)

CategoryDelete(h, recurse) ==
    LET r == CategoryDeleteResult(heap, items, h, recurse)
    IN  Returns(r, MaxNodes)

TaskDelete(h) ==
    LET r == TaskDeleteResult(heap, items, h)
    IN  Returns(r, MaxNodes)

DoRm(arg, recurse) ==
    LET r == DoRmResult(heap, items, arg, recurse)
    IN  Returns(r, MaxNodes)

DoAddcat(arg, title, newId) ==
    LET r == DoAddcatResult(heap, items, arg, title, newId)
    IN  Returns(r, MaxNodes)

Next ==
    \/ \E k \in ExplicitIds : ConstructCategory(k)
    \/ \E h \in CategoryHandles, nm \in NameInputs :
           AddCategory(h, nm.title, nm.id)
    \/ \E h \in CategoryHandles, nm \in NameInputs, m \in MinsInputs :
           AddTask(h, nm.title, nm.id, m)
    \/ \E h \in CategoryHandles, rec \in BOOLEAN : CategoryDelete(h, rec)
    \/ \E h \in TaskHandles : TaskDelete(h)
    \/ \E a \in PathArgs, rec \in BOOLEAN : DoRm(a, rec)
    \/ \E a \in PathArgs, pr \in PromptInputs : DoAddcat(a, pr.title, pr.newId)

Spec == Init /\ [][Next]_vars

(***************************************************************************)
(* What the claims about the tree speak of.                                *)
(***************************************************************************)
Containers == {RootH} \cup CategoryHandles

ChildrenOf(it, h) == {it[h][i][2] : i \in 1..Len(it[h])}

\* Everything below container h.
RECURSIVE Desc(_, _, _)
Desc(hp, it, h) ==
    UNION {{c} \cup (IF hp[c].kind = "Category" THEN Desc(hp, it, c) ELSE {})
           : c \in ChildrenOf(it, h)}

\* The objects reachable from the root.
LiveIn(hp, it) == Desc(hp, it, RootH)

\* The keys that lead from container h down to x, an object below h.
RECURSIVE KeyPath(_, _, _, _)
KeyPath(hp, it, h, x) ==
    LET i == CHOOSE i \in 1..Len(it[h]) :
                 \/ it[h][i][2] = x
                 \/ /\ hp[it[h][i][2]].kind = "Category"
                    /\ x \in Desc(hp, it, it[h][i][2])
    IN  IF it[h][i][2] = x THEN <<it[h][i][1]>>
        ELSE <<it[h][i][1]>> \o KeyPath(hp, it, it[h][i][2], x)

\* p comes before q in the depth-first walk that visits the children of
\* each level in ascending id order: a path comes before its extensions,
\* and otherwise the first key that differs decides.
RECURSIVE PathBefore(_, _)
PathBefore(p, q) ==
    IF q = <<>> THEN FALSE
    ELSE IF p = <<>> THEN TRUE
    ELSE IF p[1] # q[1] THEN StrLess(p[1], q[1])
    ELSE PathBefore(Tail(p), Tail(q))

Range(sq) == {sq[i] : i \in 1..Len(sq)}

MinsValue(m) == IF m.t = "NoneType" THEN 0 ELSE m.v

RECURSIVE SumOver(_, _)
SumOver(hp, S) ==
    IF S = {} THEN 0
    ELSE LET x == CHOOSE x \in S : TRUE
         IN  MinsValue(hp[x].mins) + SumOver(hp, S \ {x})

TasksAmong(hp, S) == {x \in S : hp[x].kind = "Task"}
CategoriesAmong(hp, S) == {x \in S : hp[x].kind = "Category"}

\* "a", "a-2"
KeyA == <<97>>
KeyA2 == <<97, 45, 50>>

(***************************************************************************)
(* Claims about the tree (checked under Spec).  A claim about a call is    *)
(* stated of the call made, with every input, in every reachable state.    *)
(***************************************************************************)
\* The entries of mapping d are all still in e, at the same places.
KeepsEntries(d, e) ==
    /\ Len(e) >= Len(d)
    /\ \A i \in 1..Len(d) : e[i] = d[i]

\* C1: starting from the empty tree, whatever adds and deletes were made, no
\* two children of one parent share an id, every child is stored under the
\* key equal to its own id, and an add without an explicit id succeeds and
\* makes the parent's mapping one entry longer, every earlier entry kept.
C1_SiblingIdsUnique ==
    /\ \A h \in Containers :
          /\ \A i, j \in 1..Len(items[h]) :
                i # j => /\ items[h][i][1] # items[h][j][1]
                         /\ heap[items[h][i][2]].id # heap[items[h][j][2]].id
          /\ \A i \in 1..Len(items[h]) : heap[items[h][i][2]].id = items[h][i][1]
    /\ \A h \in CategoryHandles, ti \in Titles :
          LET c == AddCategoryResult(heap, items, h, ti, NoId)
              t == AddTaskResult(heap, items, h, ti, NoId, IntMins(2))
          IN  /\ c.err = "ok" /\ t.err = "ok"
              /\ Len(c.items[h]) = Len(items[h]) + 1
              /\ Len(t.items[h]) = Len(items[h]) + 1
              /\ KeepsEntries(items[h], c.items[h])
              /\ KeepsEntries(items[h], t.items[h])
    /\ \A ti \in Titles :
          LET c == DoAddcatResult(heap, items, <<>>, ti, <<>>)
          IN  /\ c.err = "ok"
              /\ Len(c.items[RootH]) = Len(items[RootH]) + 1
              /\ KeepsEntries(items[RootH], c.items[RootH])

\* Two adds of the same title under one category gave "a" and "a-2"; "a"
\* was then deleted and the title added once more, which gave "a" again:
\* the category holds "a-2", "a" in insertion order.
C1_Witness ==
    \E h \in CategoryHandles :
        /\ Len(items[h]) = 2
        /\ items[h][1][1] = KeyA2
        /\ items[h][2][1] = KeyA
        /\ \E d \in Handles :
              /\ heap[d].parent = h
              /\ heap[d].id = KeyA
              /\ d \notin ChildrenOf(items, h)

\* C2: in every container, the root included, addCategory and addTask with
\* an explicit id that a child already has fail with DuplicateId and change
\* nothing: the child under that id is the same object afterwards.  (At the
\* root, addCategory is do_addcat with the id typed in.)
C2_DuplicateExplicitIdRejected ==
    /\ \A h \in CategoryHandles : \A k \in Keys(items[h]) :
          LET c == AddCategoryResult(heap, items, h, <<65>>, GivenId(k))
              t == AddTaskResult(heap, items, h, <<65>>, GivenId(k), NoMins)
          IN  /\ c.err = "DuplicateId" /\ c.heap = heap /\ c.items = items
              /\ t.err = "DuplicateId" /\ t.heap = heap /\ t.items = items
    /\ \A k \in Keys(items[RootH]) :
          LET c == DoAddcatResult(heap, items, <<>>, <<65>>, k)
          IN  /\ c.err = "DuplicateId"
              /\ c.heap = heap /\ c.items = items
              /\ Get(c.items[RootH], k) = Get(items[RootH], k)

\* Both ways of calling the non-recursive delete of category h fail with
\* NotEmpty and change nothing.
C3_Refused(h) ==
    LET r == CategoryDeleteResult(heap, items, h, FALSE)
    IN  /\ r.err = "NotEmpty" /\ r.heap = heap /\ r.items = items
        /\ h \in LiveIn(heap, items) =>
              /\ ({h} \cup Desc(heap, items, h)) \subseteq LiveIn(r.heap, r.items)
              /\ LET s == DoRmResult(heap, items,
                                     JoinDots(KeyPath(heap, items, RootH, h)), FALSE)
                 IN  s.err = "NotEmpty" /\ s.heap = heap /\ s.items = items

\* C3 as stated: delete(node, recursive=false) on a Category that has one or
\* more children always fails with NotEmpty and leaves the tree unchanged.
C3_NonEmptyDeleteAlwaysNotEmpty ==
    \A h \in CategoryHandles : items[h] # <<>> => C3_Refused(h)

\* C3 as amended: delete(node, recursive=false) on a Category that has a
\* parent and one or more children fails with NotEmpty and leaves the tree
\* unchanged; the category and all below it stay reachable from the root.
C3_NonEmptyDeleteOfParentedCategoryNotEmpty ==
    \A h \in CategoryHandles :
        (items[h] # <<>> /\ heap[h].parent # NoParent) => C3_Refused(h)

\* A category in the tree, with a child that has a child of its own.
C3_Witness ==
    \E h \in CategoryHandles :
        /\ h \in LiveIn(heap, items)
        /\ \E c \in ChildrenOf(items, h) :
              heap[c].kind = "Category" /\ items[c] # <<>>
        /\ CategoryDeleteResult(heap, items, h, FALSE).err = "NotEmpty"

\* h is a child of some container.
HasParent(h) == \E c \in DOMAIN items : h \in ChildrenOf(items, c)

\* How delete is called on object h, with recursive = rec.
DeleteCall(h, rec) ==
    IF heap[h].kind = "Category" THEN CategoryDeleteResult(heap, items, h, rec)
    ELSE TaskDeleteResult(heap, items, h)

\* C4: delete on a node that has no parent (one constructed without, or one
\* already deleted, also after a new sibling took its id) fails and removes
\* nothing, so that no live node is removed by a delete issued on another
\* node.  Whichever error delete raises is taken for NoParent here, and the
\* nodes looked at are those made with no parent or as children of a
\* Category, which lose their place in the tree by delete alone.
C4_DeleteOfDetachedNodeRemovesNothing ==
    \A h \in Handles, rec \in BOOLEAN :
        (~HasParent(h) /\ heap[h].parent # RootH) =>
            LET r == DeleteCall(h, rec)
            IN  r.err # "ok" /\ r.heap = heap /\ r.items = items

IsValidDuration(m) == m.t = "NoneType" \/ (m.t = "int" /\ m.v >= 0)

\* C5: addTask fails with InvalidDuration and inserts nothing whenever mins
\* is supplied and is not a non-negative integer, so every Task has mins
\* unset or a whole number >= 0.
C5_InvalidDurationRejected ==
    /\ \A h \in CategoryHandles, ti \in Titles, m \in MinsInputs :
          ~IsValidDuration(m) =>
              LET r == AddTaskResult(heap, items, h, ti, NoId, m)
              IN  r.err = "InvalidDuration" /\ r.heap = heap /\ r.items = items
    /\ \A t \in TaskHandles : IsValidDuration(heap[t].mins)

\* C6: delete(node, recursive=true), as do_rrm issues it, succeeds on every
\* live node, Category or Task: the node's id is no longer a key of its
\* parent, nothing of the removed subtree is reachable from the root, every
\* path through the node fails with NotFound, and nothing else changes.
C6_RecursiveDeleteRemovesSubtree ==
    \A h \in LiveIn(heap, items) :
        LET path == KeyPath(heap, items, RootH, h)
            r == DoRmResult(heap, items, JoinDots(path), TRUE)
            gone == {h} \cup (IF heap[h].kind = "Category"
                              THEN Desc(heap, items, h) ELSE {})
            par == heap[h].parent
        IN  /\ r.err = "ok"
            /\ r.heap = heap
            /\ ~Has(r.items[par], heap[h].id)
            /\ gone \cap LiveIn(r.heap, r.items) = {}
            /\ LiveIn(r.heap, r.items) = LiveIn(heap, items) \ gone
            /\ Traverse(r.heap, r.items, JoinDots(path)).err = "NotFound"
            /\ \A x \in gone \ {h} :
                  Traverse(r.heap, r.items,
                           JoinDots(KeyPath(heap, items, RootH, x))).err = "NotFound"
            /\ \A c \in DOMAIN items : c # par => r.items[c] = items[c]
            /\ r.items[par] = DelItem(items[par], heap[h].id)

\* C7: for every category c, totalMinutes(c, true) is the sum of mins (unset
\* counted as 0) over every Task below c, and totalMinutes(c, false) the sum
\* over the Tasks that are children of c.
C7_TotalMinutesIsSumOverTasks ==
    \A c \in CategoryHandles :
        /\ TotalMins(heap, items, c, TRUE)
              = SumOver(heap, TasksAmong(heap, Desc(heap, items, c)))
        /\ TotalMins(heap, items, c, FALSE)
              = SumOver(heap, TasksAmong(heap, ChildrenOf(items, c)))

\* root -> work -> projects -> design(mins = 2): work totals 2 with recursion
\* and 0 without.
C7_Witness ==
    \E w \in CategoryHandles \cap ChildrenOf(items, RootH) :
        \E pr \in CategoryHandles \cap ChildrenOf(items, w) :
            \E d \in TaskHandles \cap ChildrenOf(items, pr) :
                /\ heap[d].mins = IntMins(2)
                /\ TotalMins(heap, items, w, TRUE) = 2
                /\ TotalMins(heap, items, w, FALSE) = 0

\* sq lists exactly the objects of S, each once, in the order of the
\* depth-first walk below c that takes children in ascending id order.
C8_WalkOf(c, sq, S) ==
    /\ Len(sq) = Cardinality(S)
    /\ Range(sq) = S
    /\ \A i, j \in 1..Len(sq) :
          i < j => PathBefore(KeyPath(heap, items, c, sq[i]),
                              KeyPath(heap, items, c, sq[j]))

\* C8: whatever the insertion order, categories(c, false) and tasks(c, false)
\* are the Category (Task) children of c in ascending id order, and with
\* recursive = true the descendants in depth-first pre-order, children of
\* each level in ascending id order (a category before what is below it, one
\* child's subtree before the next sibling), each descendant exactly once.
C8_ListingOrder ==
    \A c \in CategoryHandles :
        /\ C8_WalkOf(c, Categories(heap, items, c, FALSE),
                     CategoriesAmong(heap, ChildrenOf(items, c)))
        /\ C8_WalkOf(c, Tasks(heap, items, c, FALSE),
                     TasksAmong(heap, ChildrenOf(items, c)))
        /\ C8_WalkOf(c, Categories(heap, items, c, TRUE),
                     CategoriesAmong(heap, Desc(heap, items, c)))
        /\ C8_WalkOf(c, Tasks(heap, items, c, TRUE),
                     TasksAmong(heap, Desc(heap, items, c)))

\* A category whose children were inserted as "b" then "a", with a child
\* below "a": the walk gives a, what is below a, then b.
C8_Witness ==
    \E c \in CategoryHandles :
        /\ Len(items[c]) = 2
        /\ items[c][1][1] = <<98>>
        /\ items[c][2][1] = KeyA
        /\ heap[items[c][2][2]].kind = "Category"
        /\ Len(items[items[c][2][2]]) = 1
        /\ heap[items[items[c][2][2]][1][2]].kind = "Category"
        /\ Categories(heap, items, c, TRUE)
              = <<items[c][2][2], items[items[c][2][2]][1][2], items[c][1][2]>>

(***************************************************************************)
(* SpecSlug: one call slugify_unique(text, used), statement by statement.  *)
(* The arguments are drawn from bounded sets in the initial state.         *)
(***************************************************************************)
\* 'A', 'b', '2', '-', ' ', e-acute
Alphabet == {65, 98, 50, 45, 32, 233}

\* "Hello", "hello"
Hello == <<72, 101, 108, 108, 111>>
HelloSlug == <<104, 101, 108, 108, 111>>

Texts == UNION {[1..n -> Alphabet] : n \in 0..MaxTextLen} \cup {Hello}

\* The slug every text made of 'A' and separators gives.
BaseA == <<97>>

\* BaseA, BaseA-2 .. BaseA-k
Chain(k) == {BaseA} \cup {Suffixed(BaseA, j) : j \in 2..k}

SmallPool == {<<>>, <<45, 50>>, BaseA, Suffixed(BaseA, 1), Suffixed(BaseA, 2),
              Suffixed(BaseA, 3), <<98>>}

UsedSets ==
    (SUBSET SmallPool) \cup {Chain(k) : k \in 2..MaxChain}
        \cup {{HelloSlug}, {HelloSlug, Suffixed(HelloSlug, 2)}}

\* The tree is not touched by SpecSlug.
NoTree ==
    /\ heap = <<>>
    /\ items = (0 :> <<>>)

InitSlug ==
    /\ NoTree
    /\ text \in Texts
    /\ used \in UsedSets
    /\ prefix = <<>>
    /\ slug = <<>>
    /\ count = 0
    /\ pc = "start"

\* prefix = slug = slugify(s); count = 1
SuStart ==
    /\ pc = "start"
    /\ prefix' = Slugify(text)
    /\ slug' = Slugify(text)
    /\ count' = FirstCount
    /\ pc' = "loop"
    /\ UNCHANGED <<text, used, treeVars>>

\* while slug in used: count += 1; slug = f"{prefix}-{count}"
SuLoop ==
    /\ pc = "loop"
    /\ slug \in used
    /\ count' = NextCount(count)
    /\ slug' = Suffixed(prefix, NextCount(count))
    /\ UNCHANGED <<text, used, prefix, pc, treeVars>>

\* return slug
SuReturn ==
    /\ pc = "loop"
    /\ slug \notin used
    /\ pc' = "done"
    /\ UNCHANGED <<text, used, prefix, slug, count, treeVars>>

NextSlug == SuStart \/ SuLoop \/ SuReturn

SpecSlug == InitSlug /\ [][NextSlug]_vars

(***************************************************************************)
(* SpecNormalize: one call slugify(text).                                  *)
(***************************************************************************)
NormTexts == UNION {[1..n -> Alphabet] : n \in 0..MaxNormLen}

InitNormalize ==
    /\ NoTree
    /\ text \in NormTexts
    /\ used = {}
    /\ prefix = <<>>
    /\ slug = <<>>
    /\ count = 0
    /\ pc = "start"

\* return SLUGIFY_RE.sub("-", s).lower().strip('-')
SlugifyCall ==
    /\ pc = "start"
    /\ prefix' = Slugify(text)
    /\ pc' = "done"
    /\ UNCHANGED <<text, used, slug, count, treeVars>>

NextNormalize == SlugifyCall

SpecNormalize == InitNormalize /\ [][NextNormalize]_vars

(***************************************************************************)
(* Claims about the slug generator.                                        *)
(***************************************************************************)
\* What a call that was given t and u may return as r.
C9_ReturnOk(t, u, r) ==
    LET base == Slugify(t) IN
    /\ r \notin u
    /\ base \notin u => r = base
    /\ base \in u =>
          \E k \in 2..(Cardinality(u) + 2) :
              /\ r = base \o Dash \o Str(k)
              /\ \A j \in 2..(k - 1) : (base \o Dash \o Str(j)) \in u
    /\ (t = Hello /\ u = {HelloSlug}) => r = HelloSlug \o <<45, 50>>
    /\ (t = Hello /\ u = {HelloSlug, HelloSlug \o <<45, 50>>})
          => r = HelloSlug \o <<45, 51>>

\* C9: every call unique(text, used) ends (each pass of the loop raises the
\* counter, which never exceeds |used| + 1, so the loop makes at most |used|
\* passes), leaves used as it was, and
\* returns a value outside used: normalize(text) when that is free, otherwise
\* normalize(text)-k for the smallest k >= 2 that is free (never -1).
C9_UniqueTerminatesWithSmallestFreeSuffix ==
    [][ /\ used' = used
        /\ text' = text
        /\ (pc = "loop" /\ pc' = "loop") =>
              (count' > count /\ count' <= Cardinality(used) + 1)
        /\ pc' = "done" => C9_ReturnOk(text', used', slug') ]_vars

\* A call that had to count past two taken suffixes, up to a two-digit one.
C9_Witness ==
    /\ pc = "done"
    /\ Slugify(text) \in used
    /\ text # Slugify(text)
    /\ count = MaxChain + 1

\* Section 4.1's normalize, read literally: every maximal run of characters
\* that are not ASCII letters, digits or dash becomes one dash (a dash of the
\* input is kept as it is); then lowercase; then strip dashes at both ends.
IsKept(c) == IsAlnum(c) \/ c = 45

RECURSIVE SkipUnkept(_)
SkipUnkept(s) ==
    IF s = <<>> THEN <<>>
    ELSE IF IsKept(s[1]) THEN s
    ELSE SkipUnkept(Tail(s))

RECURSIVE NormalizeRuns(_)
NormalizeRuns(s) ==
    IF s = <<>> THEN <<>>
    ELSE IF IsKept(s[1]) THEN <<s[1]>> \o NormalizeRuns(Tail(s))
    ELSE Dash \o NormalizeRuns(SkipUnkept(s))

NormalizeSpec(s) == Strip(Lower(NormalizeRuns(s)))

IsSlugChar(c) == (c >= 48 /\ c <= 57) \/ (c >= 97 /\ c <= 122) \/ c = 45

\* C10: normalize(text) is the text with every maximal run of characters that
\* are not ASCII letters, digits or dash replaced by one dash, lowercased and
\* stripped of leading/trailing dashes; it holds only lowercase letters,
\* digits and internal dashes; and normalizing it again changes nothing.
C10_NormalizeAsSpecified ==
    pc # "start" =>
        /\ prefix = NormalizeSpec(text)
        /\ \A i \in 1..Len(prefix) : IsSlugChar(prefix[i])
        /\ prefix # <<>> => (prefix[1] # 45 /\ prefix[Len(prefix)] # 45)
        /\ Slugify(prefix) = prefix

====
